---- MODULE Spec2Model ----
(***************************************************************************)
(* Review moderation workflow of components/Model/ModelReviews:            *)
(* ReviewItem's menu, the delete confirmation gate, the delete and report  *)
(* mutations with their callbacks, the keyed loading notification and the  *)
(* invalidation of the cached review collection.                           *)
(***************************************************************************)
EXTENDS Integers, Sequences, FiniteSets, TLC

\* ---------------------------------------------------------------- bounds
MaxDeletes == 2      \* delete mutations dispatched in one behaviour
MaxReports == 2      \* report mutations dispatched in one behaviour

\* ------------------------------------------------------------ the inputs
NoSession == "null"                      \* useSession() gave no session
Undefined == "undefined"                 \* session?.user?.id of no session
Users     == {"u1", "u2"}
Sessions  == {NoSession} \cup Users      \* a session is known by its user.id

ReviewIds == {1, 2}                      \* the items of ModelReviews
userId    == <<"u1", "u1">>              \* review.user.id, by review.id
modelId   == <<"m1", "m2">>              \* review.modelId, by review.id

Paths     == {"/models/1", "/models/2"}  \* router.asPath
Reasons   == {"NSFW", "TOSViolation"}    \* ReportReason used by the menu
Messages  == {"timeout", "forbidden"}    \* error.message of a failed call

LoadingKey == "sending-review-report"

VARIABLES
  session,        \* useSession().data
  asPath,         \* router.asPath of the view
  route,          \* where the router is now
  menu,           \* menu[r]: the items rendered in review r's dropdown
  modals,         \* the confirm modals that are open
  deletes,        \* delete mutations, in dispatch order
  reports,        \* report mutations, in dispatch order
  notifications,  \* ids of the keyed notifications on display
  calls           \* calls made to the collaborators, in order

vars == <<session, asPath, route, menu, modals, deletes, reports,
          notifications, calls>>

\* ------------------------------------------------- calls to collaborators
Call(op, src, inv) ==
  [op |-> op, src |-> src, inv |-> inv, key |-> "", modelId |-> "",
   title |-> "", message |-> "", reason |-> "", closed |-> {}]

\* @mantine/notifications: a shown id is not shown twice; hide removes it.
ApplyNotification(ns, c) ==
  IF c.op = "showNotification" THEN ns \cup {c.key}
  ELSE IF c.op = "hideNotification" THEN ns \ {c.key}
  ELSE ns

\* @mantine/modals: closeAllModals empties the stack, closeModal drops one.
ApplyModal(ms, c) ==
  IF c.op = "closeAllModals" THEN {}
  ELSE IF c.op = "closeModal" THEN {m \in ms : m.review \notin c.closed}
  ELSE ms

RECURSIVE NotificationsAfter(_, _)
NotificationsAfter(ns, cs) ==
  IF cs = <<>> THEN ns
  ELSE NotificationsAfter(ApplyNotification(ns, Head(cs)), Tail(cs))

RECURSIVE ModalsAfter(_, _)
ModalsAfter(ms, cs) ==
  IF cs = <<>> THEN ms
  ELSE ModalsAfter(ApplyModal(ms, Head(cs)), Tail(cs))

\* The calls cs are made, in order, and the collaborators act on them.
Perform(cs) ==
  /\ calls' = calls \o cs
  /\ notifications' = NotificationsAfter(notifications, cs)
  /\ modals' = ModalsAfter(modals, cs)

\* ------------------------------------------------------------ the render
ActorId(s) == IF s = NoSession THEN Undefined ELSE s

isOwnerAnySession(s, r) == s # NoSession

isOwner(s, r) == ActorId(s) = userId[r]

MenuItems(s, r) ==
  (IF isOwner(s, r) THEN {"Delete review"} ELSE {})
  \cup (IF s = NoSession \/ ~isOwner(s, r)
        THEN {"Report as NSFW", "Report as Terms Violation"} ELSE {})

Render(s) == [r \in ReviewIds |-> MenuItems(s, r)]

ReportItem(reason) ==
  IF reason = "NSFW" THEN "Report as NSFW" ELSE "Report as Terms Violation"

\* The view is on screen and no modal overlay covers its menus.
MenuUsable == route = asPath /\ modals = {}

\* --------------------------------------------------------- the mutations
Loading(muts) == {i \in 1..Len(muts) : muts[i].status = "loading"}

\* deleteMutation.isLoading of review r's item: its latest mutation is
\* still in flight.
isLoading(r) ==
  LET mine == {i \in 1..Len(deletes) : deletes[i].review = r}
  IN  mine # {} /\
      deletes[CHOOSE i \in mine : \A j \in mine : j <= i].status = "loading"

OpenGates == {m.review : m \in modals}

deleteOnSuccessOwnGate(i) ==
  << [Call("invalidate", "delete", i) EXCEPT !.modelId = modelId[deletes[i].review]],
     [Call("closeModal", "delete", i) EXCEPT !.closed = {deletes[i].review}] >>

deleteMutation_onSuccess(i) ==
  << [Call("invalidate", "delete", i) EXCEPT !.modelId = modelId[deletes[i].review]],
     [Call("closeAllModals", "delete", i) EXCEPT !.closed = OpenGates] >>

deleteOnErrorClosing(i, msg) ==
  << [Call("showErrorNotification", "delete", i) EXCEPT
        !.title = "Could not delete review", !.message = msg],
     [Call("closeAllModals", "delete", i) EXCEPT !.closed = OpenGates] >>

deleteMutation_onError(i, msg) ==
  << [Call("showErrorNotification", "delete", i) EXCEPT
        !.title = "Could not delete review", !.message = msg] >>

reportMutation_onMutate(i) ==
  << [Call("showNotification", "report", i) EXCEPT
        !.key = LoadingKey, !.message = "Sending report..."] >>

reportOnSuccessNotifyFirst(i) ==
  << [Call("showSuccessNotification", "report", i) EXCEPT
        !.title = "Review reported", !.message = "Your request has been received"],
     [Call("invalidate", "report", i) EXCEPT !.modelId = modelId[reports[i].review]] >>

reportMutation_onSuccess(i) ==
  << [Call("invalidate", "report", i) EXCEPT !.modelId = modelId[reports[i].review]],
     [Call("showSuccessNotification", "report", i) EXCEPT
        !.title = "Review reported", !.message = "Your request has been received"] >>

reportOnErrorAlsoSuccess(i, msg) ==
  << [Call("showErrorNotification", "report", i) EXCEPT
        !.title = "Unable to send report", !.message = msg,
        !.reason = "An unexpected error occurred, please try again"],
     [Call("showSuccessNotification", "report", i) EXCEPT
        !.title = "Review reported", !.message = "Your request has been received"] >>

reportMutation_onError(i, msg) ==
  << [Call("showErrorNotification", "report", i) EXCEPT
        !.title = "Unable to send report", !.message = msg,
        !.reason = "An unexpected error occurred, please try again"] >>

reportOnSettledNothing(i) == <<>>

reportOnSettledLastOnly(i) ==
  IF \E j \in Loading(reports) : j # i THEN <<>>
  ELSE << [Call("hideNotification", "report", i) EXCEPT !.key = LoadingKey] >>

reportMutation_onSettled(i) ==
  << [Call("hideNotification", "report", i) EXCEPT !.key = LoadingKey] >>

\* ------------------------------------------------------------ the state
Init ==
  /\ session \in Sessions
  /\ asPath \in Paths
  /\ route = asPath
  /\ menu = Render(session)
  /\ modals = {}
  /\ deletes = <<>>
  /\ reports = <<>>
  /\ notifications = {}
  /\ calls = <<>>

\* "Delete review" is clicked: openConfirmModal. The modal keeps the props it
\* is opened with, so confirmProps.loading is deleteMutation.isLoading as it
\* is at this click; later renders of the item do not reach the modal.
handleDeleteReview(r) ==
  /\ MenuUsable
  /\ "Delete review" \in menu[r]
  /\ modals' = modals \cup {[review |-> r, loading |-> isLoading(r)]}
  /\ UNCHANGED <<session, asPath, route, menu, deletes, reports,
                 notifications, calls>>

closeOnConfirmDefault == TRUE

closeOnConfirm == FALSE

\* The modal's confirm button is clicked: onConfirm (deleteMutation.mutate),
\* then closeOnConfirm. A button opened with loading takes no click. Every
\* mutate starts a mutation of its own that runs the callbacks of the options.
Confirm(m) ==
  /\ m \in modals
  /\ ~m.loading
  /\ Len(deletes) < MaxDeletes
  /\ deletes' = Append(deletes, [review |-> m.review, status |-> "loading"])
  /\ modals' = IF closeOnConfirm THEN modals \ {m} ELSE modals
  /\ UNCHANGED <<session, asPath, route, menu, reports, notifications, calls>>

\* The modal's cancel button is clicked: closeOnCancel is the default.
Cancel(m) ==
  /\ m \in modals
  /\ modals' = modals \ {m}
  /\ UNCHANGED <<session, asPath, route, menu, deletes, reports,
                 notifications, calls>>

DeleteSucceeds(i) ==
  /\ i \in Loading(deletes)
  /\ deletes' = [deletes EXCEPT ![i].status = "success"]
  /\ Perform(deleteMutation_onSuccess(i))
  /\ UNCHANGED <<session, asPath, route, menu, reports>>

DeleteFails(i, msg) ==
  /\ i \in Loading(deletes)
  /\ deletes' = [deletes EXCEPT ![i].status = "error"]
  /\ Perform(deleteMutation_onError(i, msg))
  /\ UNCHANGED <<session, asPath, route, menu, reports>>

handleReportReviewNoSessionCheck(r, reason) ==
  /\ MenuUsable
  /\ ReportItem(reason) \in menu[r]
  /\ Len(reports) < MaxReports
  /\ reports' = Append(reports,
                       [review |-> r, reason |-> reason, status |-> "loading"])
  /\ Perform(reportMutation_onMutate(Len(reports) + 1))
  /\ UNCHANGED <<session, asPath, route, menu, deletes>>

\* A report item is clicked.
handleReportReview(r, reason) ==
  /\ MenuUsable
  /\ ReportItem(reason) \in menu[r]
  /\ IF session = NoSession
     THEN /\ route' = "/login?returnUrl=" \o asPath
          /\ UNCHANGED <<session, asPath, menu, modals, deletes, reports,
                         notifications, calls>>
     ELSE /\ Len(reports) < MaxReports
          /\ reports' = Append(reports,
                          [review |-> r, reason |-> reason, status |-> "loading"])
          /\ Perform(reportMutation_onMutate(Len(reports) + 1))
          /\ UNCHANGED <<session, asPath, route, menu, deletes>>

ReportSucceeds(i) ==
  /\ i \in Loading(reports)
  /\ reports' = [reports EXCEPT ![i].status = "success"]
  /\ Perform(reportMutation_onSuccess(i) \o reportMutation_onSettled(i))
  /\ UNCHANGED <<session, asPath, route, menu, deletes>>

ReportFails(i, msg) ==
  /\ i \in Loading(reports)
  /\ reports' = [reports EXCEPT ![i].status = "error"]
  /\ Perform(reportMutation_onError(i, msg) \o reportMutation_onSettled(i))
  /\ UNCHANGED <<session, asPath, route, menu, deletes>>

Next ==
  \/ \E r \in ReviewIds : handleDeleteReview(r)
  \/ \E m \in modals : Confirm(m)
  \/ \E m \in modals : Cancel(m)
  \/ \E i \in 1..MaxDeletes : DeleteSucceeds(i)
  \/ \E i \in 1..MaxDeletes, msg \in Messages : DeleteFails(i, msg)
  \/ \E r \in ReviewIds, reason \in Reasons : handleReportReview(r, reason)
  \/ \E i \in 1..MaxReports : ReportSucceeds(i)
  \/ \E i \in 1..MaxReports, msg \in Messages : ReportFails(i, msg)

Spec == Init /\ [][Next]_vars

\* Every remote call settles: the promise of a dispatched mutation resolves
\* or rejects.
ReportSettles(i) == ReportSucceeds(i) \/ \E msg \in Messages : ReportFails(i, msg)

FairSpec == Spec /\ \A i \in 1..MaxReports : WF_vars(ReportSettles(i))

\* ------------------------------------------------- helpers of the claims
\* The calls made in the step at hand.
NewCalls == SubSeq(calls', Len(calls) + 1, Len(calls'))

Ops(cs) == [k \in 1..Len(cs) |-> cs[k].op]

\* Of the calls cs, those of invocation i of mutation src whose op is in ops.
CallsOf(cs, src, i, ops) ==
  SelectSeq(cs, LAMBDA c : c.src = src /\ c.inv = i /\ c.op \in ops)

Invalidations(cs) ==
  LET inv == SelectSeq(cs, LAMBDA c : c.op = "invalidate")
  IN  [k \in 1..Len(inv) |-> inv[k].modelId]

Settled(muts) == {i \in 1..Len(muts) : muts[i].status # "loading"}

NotificationOps == {"showNotification", "showSuccessNotification",
                    "showErrorNotification", "hideNotification"}

ReportItems == {"Report as NSFW", "Report as Terms Violation"}

\* ----------------------------------------------------------------- C1
\* C1: for every session and review, "Delete review" is offered exactly
\* when the session's user id is the review's author id, and the two report
\* items are offered exactly when there is no session or the actor is not
\* the author; so each menu is the delete item alone or the two report
\* items alone.
MenuMatchesOwnership ==
  \A r \in ReviewIds :
    /\ ("Delete review" \in menu[r]) <=> (session # NoSession /\ session = userId[r])
    /\ \A item \in ReportItems :
         (item \in menu[r]) <=> (session = NoSession \/ session # userId[r])
    /\ menu[r] \in {{"Delete review"}, ReportItems}

OwnerSeesDeleteOnly ==
  /\ session = userId[1]
  /\ menu[1] = {"Delete review"}
  /\ \E m \in modals : m.review = 1

\* ----------------------------------------------------------------- C2
\* C2: with no session, no step dispatches a report mutation or shows the
\* loading notification, and a click on a report item (any reason) sends
\* the router to the login page with the current path as returnUrl.
ReportWithoutSessionRedirects ==
  [][ /\ session = NoSession =>
           /\ reports' = reports
           /\ notifications' = notifications
           /\ calls' = calls
      /\ \A r \in ReviewIds, reason \in Reasons :
           (session = NoSession /\ handleReportReview(r, reason)) =>
              route' = "/login?returnUrl=" \o asPath ]_vars

AnonymousReportRedirected ==
  /\ session = NoSession
  /\ route = "/login?returnUrl=" \o asPath
  /\ route # asPath
  /\ reports = <<>> /\ calls = <<>>

\* ----------------------------------------------------------------- C3
\* C3: the step in which a delete succeeds invalidates the review cache of
\* the deleted review's model id and of no other, and leaves no modal open;
\* the step in which a delete fails invalidates nothing, leaves the modals
\* as they are and shows an error notification titled "Could not delete
\* review".
DeleteOutcome ==
  [][ \A i \in Loading(deletes) :
        /\ deletes'[i].status = "success" =>
             /\ Invalidations(NewCalls) = << modelId[deletes[i].review] >>
             /\ modals' = {}
             /\ CallsOf(NewCalls, "delete", i, {"showErrorNotification"}) = <<>>
        /\ deletes'[i].status = "error" =>
             /\ Invalidations(NewCalls) = <<>>
             /\ modals' = modals
             /\ Len(NewCalls) = 1
             /\ NewCalls[1].op = "showErrorNotification"
             /\ NewCalls[1].title = "Could not delete review" ]_vars

DeleteFailedThenSucceeded ==
  \E i, j \in 1..Len(deletes) :
    /\ i < j
    /\ deletes[i].status = "error"
    /\ deletes[j].status = "success"
    /\ \E k \in 1..Len(calls) :
         /\ calls[k].op = "closeAllModals" /\ calls[k].inv = j
         /\ deletes[j].review \in calls[k].closed
    /\ modals = {}

\* ----------------------------------------------------------------- C4
\* C4: whenever no report is in flight the loading notification
\* "sending-review-report" is not on display, and every report in flight
\* leads to a state where it has settled and the notification is hidden,
\* also when reports overlap.
LoadingEventuallyHidden ==
  /\ [](Loading(reports) = {} => LoadingKey \notin notifications)
  /\ \A i \in 1..MaxReports :
       (i \in Loading(reports)) ~>
          (i \in Settled(reports) /\ LoadingKey \notin notifications)

OverlappingReportsSettled ==
  /\ Len(reports) >= 2
  /\ Loading(reports) = {}
  /\ LoadingKey \notin notifications
  /\ \E p, q \in 1..Len(calls) :
       /\ p < q
       /\ calls[p].op = "showNotification" /\ calls[p].inv = 2
       /\ calls[q].op = "hideNotification" /\ calls[q].inv = 1

AtMostOneDeleteInFlight ==
  \A r \in ReviewIds :
    Cardinality({i \in Loading(deletes) : deletes[i].review = r}) <= 1

\* ----------------------------------------------------------------- C7
\* C7: the notification calls of one report invocation are, in order, the
\* loading notification at dispatch, then one of the success and the error
\* notification, then the dismissal of the loading notification, once and
\* only once the outcome is known.
ReportNotificationOrder ==
  \A i \in 1..Len(reports) :
    LET ops == Ops(CallsOf(calls, "report", i, NotificationOps))
    IN  /\ reports[i].status = "loading" => ops = << "showNotification" >>
        /\ reports[i].status = "success" =>
             ops = << "showNotification", "showSuccessNotification", "hideNotification" >>
        /\ reports[i].status = "error" =>
             ops = << "showNotification", "showErrorNotification", "hideNotification" >>

ReportSettledBesidePending ==
  \E i \in Settled(reports) : \E j \in Loading(reports) :
    /\ i < j
    /\ reports[i].status = "success"
    /\ LoadingKey \in notifications

\* ----------------------------------------------------------------- C8
\* C8: a report that succeeded invalidated the review cache of its review's
\* model and then showed the success notification; a report that failed
\* showed an error notification titled "Unable to send report" with the
\* fixed hint and invalidated nothing; and a report that has settled is
\* never dispatched again, nor does the settling step dispatch anything.
ReportOutcomeCalls ==
  /\ [](\A i \in 1..Len(reports) :
          LET cs == CallsOf(calls, "report", i,
                       {"invalidate", "showSuccessNotification", "showErrorNotification"})
          IN  /\ reports[i].status = "success" =>
                   /\ Ops(cs) = << "invalidate", "showSuccessNotification" >>
                   /\ cs[1].modelId = modelId[reports[i].review]
              /\ reports[i].status = "error" =>
                   /\ Ops(cs) = << "showErrorNotification" >>
                   /\ cs[1].title = "Unable to send report"
                   /\ cs[1].reason = "An unexpected error occurred, please try again")
  /\ [][ /\ \A i \in Settled(reports) : reports'[i] = reports[i]
         /\ Settled(reports') # Settled(reports) => Len(reports') = Len(reports) ]_vars

ReportFailedAndReportSucceeded ==
  /\ Loading(reports) = {}
  /\ \E i, j \in 1..Len(reports) :
       /\ reports[i].status = "error"
       /\ reports[j].status = "success"
       /\ reports[i].review # reports[j].review

\* ----------------------------------------------------------------- C9
\* C9: the key of the loading notification is shared: the step in which one
\* report settles while another is still in flight hides the loading
\* notification, so a report is pending and no loading notification shows.
SettleHidesSharedLoading ==
  [][ \A i \in Loading(reports) :
        (reports'[i].status # "loading" /\ Loading(reports') # {}) =>
           LoadingKey \notin notifications' ]_vars

PendingReportWithoutLoading ==
  \E i \in Settled(reports) : \E j \in Loading(reports) :
    /\ reports[i].review # reports[j].review
    /\ LoadingKey \notin notifications

\* ---------------------------------------------------------------- C10
\* C10: the step in which a delete succeeds closes the gate of every other
\* review too, with no delete of that review dispatched or settled in the
\* step, and invalidates only the model id of the review that was deleted.
DeleteSuccessClosesOtherGates ==
  [][ \A i \in Loading(deletes) : \A m \in modals :
        (deletes'[i].status = "success" /\ m.review # deletes[i].review) =>
           /\ m \notin modals'
           /\ \A j \in 1..Len(deletes) : j # i => deletes'[j] = deletes[j]
           /\ Len(deletes') = Len(deletes)
           /\ \A k \in 1..Len(NewCalls) :
                NewCalls[k].op = "invalidate" =>
                   NewCalls[k].modelId = modelId[deletes[i].review] ]_vars

OtherReviewGateClosed ==
  \E k \in 2..Len(calls) :
    /\ calls[k].op = "closeAllModals"
    /\ calls[k].closed # {}
    /\ deletes[calls[k].inv].review \notin calls[k].closed
    /\ \A j \in 1..Len(deletes) : deletes[j].review \notin calls[k].closed
    /\ calls[k - 1].op = "invalidate"
    /\ calls[k - 1].modelId = modelId[deletes[calls[k].inv].review]
    /\ modals = {}

====
